---- MODULE Spec2Model ----
(***************************************************************************)
(* Scheduled-delivery core of wa-mobile-scheduler: POST /api/schedule,     *)
(* the setTimeout callback it arms, and POST /api/cancel, over the         *)
(* scheduledTasks map, the upload directory and the timers.                *)
(* The repository holds two versions of the server (src/server.js and      *)
(* src/unnamed/part_000); `variant' selects which one is running.          *)
(***************************************************************************)
EXTENDS Integers, Sequences, FiniteSets, TLC

\* ---- bounds -------------------------------------------------------------
MaxTime == 1
MaxTasks == 2
\* chats returned by one client.getChats(), and getChats calls in flight
MaxChats == 2
MaxCalls == 2

\* ---- input domains ------------------------------------------------------
Variants == {"server", "part_000"}
Ids == {"", "a", "b"}
GroupIds == {"", "g"}
Names == {"p"}
ScheduleTimes ==
  {[s |-> "empty", t |-> 0], [s |-> "bad", t |-> 0]}
    \cup {[s |-> "iso", t |-> k] : k \in 0..(MaxTime + 1)}
Paths == (0..MaxTime) \X Names

VARIABLES variant, now, files, unlinking, scheduledTasks, timers, promise,
          events, effects, cancelled, cancelSeen, cancelledOnce, resp,
          isReady, lastEvent, getChats, arrivedAfter, gresp

vars == <<variant, now, files, unlinking, scheduledTasks, timers, promise,
          events, effects, cancelled, cancelSeen, cancelledOnce, resp,
          isReady, lastEvent, getChats, arrivedAfter, gresp>>

\* ---- pure helpers -------------------------------------------------------
\* new Date(scheduleTime).getTime(): a number, or NaN when not parseable
getTime(st) ==
  IF st.s = "iso" THEN [nan |-> FALSE, v |-> st.t] ELSE [nan |-> TRUE, v |-> 0]

\* targetTime - now, NaN-propagating
delayOf(st, n) ==
  LET g == getTime(st) IN
  IF g.nan THEN g ELSE [nan |-> FALSE, v |-> g.v - n]

\* the test `delay < 0' (false for NaN)
isPast(d) == (~d.nan) /\ d.v < 0

\* setTimeout(cb, delay): a delay that is NaN, below 1 or above the largest
\* 32-bit signed integer becomes 1
timerDelay(d) == IF d.nan \/ d.v < 1 \/ d.v > 2147483647 THEN 1 ELSE d.v

\* multer filename: Date.now() + '-' + file.originalname
filename(n, name) == <<n, name>>

\* the required-data check of the running version
missingData(hasFile, groupId, st, uiId) ==
  IF variant = "part_000"
    THEN (~hasFile) \/ groupId = "" \/ st.s = "empty" \/ uiId = ""
    ELSE ~hasFile

missingBody == IF variant = "part_000" THEN "Missing required data" ELSE "No file"
pastBody == IF variant = "part_000" THEN "Scheduled time is in the past." ELSE "Past time"
cancelBody == IF variant = "part_000" THEN "Cancelled and Deleted" ELSE "Cancelled"
notFoundBody ==
  IF variant = "part_000" THEN "Task ID not found or already sent" ELSE "Not found"

\* Map.delete(key)
mapDelete(m, k) == [x \in (DOMAIN m) \ {k} |-> m[x]]

\* Map.set(key, value)
mapSet(m, k, val) == [x \in (DOMAIN m) \cup {k} |-> IF x = k THEN val ELSE m[x]]

\* the timer handles setTimeout has returned so far
Handles == 1..Len(timers)
TaskIds == 1..MaxTasks

\* ---- initial state ------------------------------------------------------
Init ==
  /\ variant \in Variants
  /\ now = 0
  /\ files = {}
  /\ unlinking = {}
  /\ scheduledTasks = <<>>
  /\ timers = <<>>
  /\ promise = <<>>
  /\ events = <<>>
  /\ effects = <<>>
  /\ cancelled = {}
  /\ cancelSeen = {}
  /\ cancelledOnce = {}
  /\ resp = [op |-> "none", id |-> "", code |-> 0, body |-> ""]
  /\ isReady = FALSE
  /\ lastEvent = "none"
  /\ getChats = 0
  /\ arrivedAfter = "none"
  /\ gresp = [code |-> 0, groups |-> <<>>, error |-> ""]

\* ---- POST /api/schedule (upload.single('image') then the handler) -------
ScheduleMissing(hasFile, name, groupId, st, uiId) ==
  /\ missingData(hasFile, groupId, st, uiId)
  /\ files' = IF hasFile THEN files \cup {filename(now, name)} ELSE files
  /\ resp' = [op |-> "schedule", id |-> uiId, code |-> 400, body |-> missingBody]
  /\ UNCHANGED <<isReady, lastEvent, getChats, arrivedAfter, gresp,
                 variant, now, unlinking, scheduledTasks, timers, promise,
                 events, effects, cancelled, cancelSeen, cancelledOnce>>

SchedulePast(hasFile, name, groupId, st, uiId) ==
  /\ ~missingData(hasFile, groupId, st, uiId)
  /\ isPast(delayOf(st, now))
  /\ files' = files \cup {filename(now, name)}
  /\ unlinking' = unlinking \cup {filename(now, name)}
  /\ resp' = [op |-> "schedule", id |-> uiId, code |-> 400, body |-> pastBody]
  /\ UNCHANGED <<isReady, lastEvent, getChats, arrivedAfter, gresp,
                 variant, now, scheduledTasks, timers, promise,
                 events, effects, cancelled, cancelSeen, cancelledOnce>>

ScheduleAccept(hasFile, name, groupId, st, uiId) ==
  /\ ~missingData(hasFile, groupId, st, uiId)
  /\ ~isPast(delayOf(st, now))
  /\ Len(timers) < MaxTasks
  /\ files' = files \cup {filename(now, name)}
  /\ timers' = Append(timers,
                 [uiId |-> uiId,
                  path |-> filename(now, name),
                  fireAt |-> now + timerDelay(delayOf(st, now)),
                  pc |-> "armed"])
  /\ promise' = Append(promise, "none")
  /\ effects' = Append(effects, <<>>)
  /\ scheduledTasks' = mapSet(scheduledTasks, uiId,
                 [timeout |-> Len(timers) + 1, filePath |-> filename(now, name)])
  /\ cancelledOnce' = cancelledOnce \ {uiId}
  /\ resp' = [op |-> "schedule", id |-> uiId, code |-> 200, body |-> "Scheduled"]
  /\ UNCHANGED <<isReady, lastEvent, getChats, arrivedAfter, gresp,
                 variant, now, unlinking, events, cancelled, cancelSeen>>

Schedule(hasFile, name, groupId, st, uiId) ==
  \/ ScheduleMissing(hasFile, name, groupId, st, uiId)
  \/ SchedulePast(hasFile, name, groupId, st, uiId)
  \/ ScheduleAccept(hasFile, name, groupId, st, uiId)

\* ---- the setTimeout callback --------------------------------------------
\* FireSend behind a global lock: no delivery starts while another is awaited
FireSend_serial(t) ==
  /\ t \in Handles
  /\ timers[t].pc = "armed"
  /\ now >= timers[t].fireAt
  /\ timers[t].path \in files
  /\ \A u \in Handles : timers[u].pc # "awaiting"
  /\ timers' = [timers EXCEPT ![t].pc = "awaiting"]
  /\ promise' = [promise EXCEPT ![t] = "pending"]
  /\ effects' = [effects EXCEPT ![t] = Append(@, "send")]
  /\ UNCHANGED <<isReady, lastEvent, getChats, arrivedAfter, gresp,
                 variant, now, files, unlinking, scheduledTasks, events,
                 cancelled, cancelSeen, cancelledOnce, resp>>

\* up to the await: existsSync, MessageMedia.fromFilePath, client.sendMessage
FireSend(t) ==
  /\ t \in Handles
  /\ timers[t].pc = "armed"
  /\ now >= timers[t].fireAt
  /\ timers[t].path \in files
  /\ timers' = [timers EXCEPT ![t].pc = "awaiting"]
  /\ promise' = [promise EXCEPT ![t] = "pending"]
  /\ effects' = [effects EXCEPT ![t] = Append(@, "send")]
  /\ UNCHANGED <<isReady, lastEvent, getChats, arrivedAfter, gresp,
                 variant, now, files, unlinking, scheduledTasks, events,
                 cancelled, cancelSeen, cancelledOnce, resp>>

\* MessageMedia.fromFilePath throws: caught and logged
FireThrow(t) ==
  /\ t \in Handles
  /\ timers[t].pc = "armed"
  /\ now >= timers[t].fireAt
  /\ timers[t].path \in files
  /\ timers' = [timers EXCEPT ![t].pc = "done"]
  /\ effects' = [effects EXCEPT ![t] = Append(@, "log")]
  /\ UNCHANGED <<isReady, lastEvent, getChats, arrivedAfter, gresp,
                 variant, now, files, unlinking, scheduledTasks, promise,
                 events, cancelled, cancelSeen, cancelledOnce, resp>>

\* FireNoFile with scheduledTasks.delete(uiId) inside the existsSync branch
FireNoFile_keepEntry(t) ==
  /\ t \in Handles
  /\ timers[t].pc = "armed"
  /\ now >= timers[t].fireAt
  /\ timers[t].path \notin files
  /\ timers' = [timers EXCEPT ![t].pc = "done"]
  /\ UNCHANGED <<isReady, lastEvent, getChats, arrivedAfter, gresp,
                 variant, now, files, unlinking, scheduledTasks, promise,
                 events, effects, cancelled, cancelSeen, cancelledOnce, resp>>

\* the file is gone: only scheduledTasks.delete(uiId)
FireNoFile(t) ==
  /\ t \in Handles
  /\ timers[t].pc = "armed"
  /\ now >= timers[t].fireAt
  /\ timers[t].path \notin files
  /\ timers' = [timers EXCEPT ![t].pc = "done"]
  /\ scheduledTasks' = mapDelete(scheduledTasks, timers[t].uiId)
  /\ effects' = [effects EXCEPT ![t] = Append(@, "delete")]
  /\ UNCHANGED <<isReady, lastEvent, getChats, arrivedAfter, gresp,
                 variant, now, files, unlinking, promise, events,
                 cancelled, cancelSeen, cancelledOnce, resp>>

\* SendResolve without the final scheduledTasks.delete(uiId)
SendResolve_keepEntry(t) ==
  /\ t \in Handles
  /\ timers[t].pc = "awaiting"
  /\ promise' = [promise EXCEPT ![t] = "resolved"]
  /\ timers' = [timers EXCEPT ![t].pc = "done"]
  /\ events' = Append(events, timers[t].uiId)
  /\ unlinking' = unlinking \cup {timers[t].path}
  /\ effects' = [effects EXCEPT ![t] = @ \o <<"emit", "unlink">>]
  /\ UNCHANGED <<isReady, lastEvent, getChats, arrivedAfter, gresp,
                 variant, now, files, scheduledTasks, cancelled, cancelSeen,
                 cancelledOnce, resp>>

\* client.sendMessage resolved: emit, fs.unlink, scheduledTasks.delete
SendResolve(t) ==
  /\ t \in Handles
  /\ timers[t].pc = "awaiting"
  /\ promise' = [promise EXCEPT ![t] = "resolved"]
  /\ timers' = [timers EXCEPT ![t].pc = "done"]
  /\ events' = Append(events, timers[t].uiId)
  /\ unlinking' = unlinking \cup {timers[t].path}
  /\ scheduledTasks' = mapDelete(scheduledTasks, timers[t].uiId)
  /\ effects' = [effects EXCEPT ![t] = @ \o <<"emit", "unlink", "delete">>]
  /\ UNCHANGED <<isReady, lastEvent, getChats, arrivedAfter, gresp,
                 variant, now, files, cancelled, cancelSeen, cancelledOnce, resp>>

\* client.sendMessage rejected: caught and logged
SendReject(t) ==
  /\ t \in Handles
  /\ timers[t].pc = "awaiting"
  /\ promise' = [promise EXCEPT ![t] = "rejected"]
  /\ timers' = [timers EXCEPT ![t].pc = "done"]
  /\ effects' = [effects EXCEPT ![t] = Append(@, "log")]
  /\ UNCHANGED <<isReady, lastEvent, getChats, arrivedAfter, gresp,
                 variant, now, files, unlinking, scheduledTasks,
                 events, cancelled, cancelSeen, cancelledOnce, resp>>

\* ---- POST /api/cancel ---------------------------------------------------
\* CancelFound without scheduledTasks.delete(id)
CancelFound_keepEntry(id) ==
  /\ id \in DOMAIN scheduledTasks
  /\ LET task == scheduledTasks[id] IN
       /\ timers' = IF timers[task.timeout].pc = "armed"
                      THEN [timers EXCEPT ![task.timeout].pc = "cleared"]
                      ELSE timers
       /\ files' = files \ {task.filePath}
       /\ cancelled' = cancelled \cup {task.timeout}
  /\ cancelSeen' = cancelSeen \cup
       {t \in Handles : timers[t].uiId = id /\ timers[t].pc = "armed"}
  /\ cancelledOnce' = cancelledOnce \cup {id}
  /\ resp' = [op |-> "cancel", id |-> id, code |-> 200, body |-> cancelBody]
  /\ UNCHANGED <<isReady, lastEvent, getChats, arrivedAfter, gresp,
                 variant, now, unlinking, scheduledTasks, promise, events, effects>>

CancelFound(id) ==
  /\ id \in DOMAIN scheduledTasks
  /\ LET task == scheduledTasks[id] IN
       /\ timers' = IF timers[task.timeout].pc = "armed"
                      THEN [timers EXCEPT ![task.timeout].pc = "cleared"]
                      ELSE timers
       /\ files' = files \ {task.filePath}
       /\ cancelled' = cancelled \cup {task.timeout}
  /\ cancelSeen' = cancelSeen \cup
       {t \in Handles : timers[t].uiId = id /\ timers[t].pc = "armed"}
  /\ scheduledTasks' = mapDelete(scheduledTasks, id)
  /\ cancelledOnce' = cancelledOnce \cup {id}
  /\ resp' = [op |-> "cancel", id |-> id, code |-> 200, body |-> cancelBody]
  /\ UNCHANGED <<isReady, lastEvent, getChats, arrivedAfter, gresp,
                 variant, now, unlinking, promise, events, effects>>

CancelNotFound(id) ==
  /\ id \notin DOMAIN scheduledTasks
  /\ cancelledOnce' = cancelledOnce \cup {id}
  /\ resp' = [op |-> "cancel", id |-> id, code |-> 404, body |-> notFoundBody]
  /\ UNCHANGED <<isReady, lastEvent, getChats, arrivedAfter, gresp,
                 variant, now, files, unlinking, scheduledTasks, timers,
                 promise, events, effects, cancelled, cancelSeen>>

Cancel(id) == CancelFound(id) \/ CancelNotFound(id)

\* ---- environment --------------------------------------------------------
\* completion of an asynchronous fs.unlink(path, () => {})
UnlinkDone(p) ==
  /\ p \in unlinking
  /\ files' = files \ {p}
  /\ unlinking' = unlinking \ {p}
  /\ UNCHANGED <<isReady, lastEvent, getChats, arrivedAfter, gresp,
                 variant, now, scheduledTasks, timers, promise, events,
                 effects, cancelled, cancelSeen, cancelledOnce, resp>>

\* the clock advances by one millisecond
Tick ==
  /\ now < MaxTime
  /\ now' = now + 1
  /\ UNCHANGED <<isReady, lastEvent, getChats, arrivedAfter, gresp,
                 variant, files, unlinking, scheduledTasks, timers, promise,
                 events, effects, cancelled, cancelSeen, cancelledOnce, resp>>

Next ==
  \/ \E hasFile \in BOOLEAN, name \in Names, groupId \in GroupIds,
        st \in ScheduleTimes, uiId \in Ids :
       \/ ScheduleMissing(hasFile, name, groupId, st, uiId)
       \/ SchedulePast(hasFile, name, groupId, st, uiId)
       \/ ScheduleAccept(hasFile, name, groupId, st, uiId)
  \/ \E t \in TaskIds : FireSend(t)
  \/ \E t \in TaskIds : FireThrow(t)
  \/ \E t \in TaskIds : FireNoFile(t)
  \/ \E t \in TaskIds : SendResolve(t)
  \/ \E t \in TaskIds : SendReject(t)
  \/ \E id \in Ids : CancelFound(id)
  \/ \E id \in Ids : CancelNotFound(id)
  \/ \E p \in Paths : UnlinkDone(p)
  \/ Tick

Spec == Init /\ [][Next]_vars

\* ---- the WhatsApp client's events and GET /api/groups --------------------
ChatIds == {"g", "h"}
ChatNames == {"n"}
Chat == [isGroup : BOOLEAN, name : ChatNames, id : [_serialized : ChatIds]]
Chats == UNION {[1..n -> Chat] : n \in 0..MaxChats}

isGroupChat(c) == c.isGroup
\* chats.filter(c => c.isGroup).map(c => ({name: c.name, id: c.id._serialized}))
groups(chats) ==
  LET g == SelectSeq(chats, isGroupChat)
  IN  [k \in 1..Len(g) |-> [name |-> g[k].name, id |-> g[k].id._serialized]]

notReadyBody ==
  IF variant = "server" THEN "Not ready"
  ELSE "WhatsApp not ready yet. Please wait."

schedulerVars == <<now, files, unlinking, scheduledTasks, timers, promise,
                   events, effects, cancelled, cancelSeen, cancelledOnce, resp>>

\* client.on('qr'): the client asks for pairing, which it does only while it
\* is not authenticated; the handler leaves isReady alone
Qr ==
  /\ lastEvent # "ready"
  /\ lastEvent' = "qr"
  /\ UNCHANGED <<variant, schedulerVars, isReady, getChats, arrivedAfter, gresp>>

\* client.on('ready')
Ready ==
  /\ isReady' = TRUE
  /\ lastEvent' = "ready"
  /\ UNCHANGED <<variant, schedulerVars, getChats, arrivedAfter, gresp>>

\* Disconnected without the assignment isReady = false
Disconnected_keepReady ==
  /\ lastEvent' = "disconnected"
  /\ UNCHANGED <<variant, schedulerVars, isReady, getChats, arrivedAfter, gresp>>

\* client.on('disconnected'): isReady = false, then client.initialize()
Disconnected ==
  /\ isReady' = FALSE
  /\ lastEvent' = "disconnected"
  /\ UNCHANGED <<variant, schedulerVars, getChats, arrivedAfter, gresp>>

\* GET /api/groups, if (!isReady) return 503
GroupsNotReady ==
  /\ ~isReady
  /\ arrivedAfter' = lastEvent
  /\ gresp' = [code |-> 503, groups |-> <<>>, error |-> notReadyBody]
  /\ UNCHANGED <<variant, schedulerVars, isReady, lastEvent, getChats>>

\* GET /api/groups up to the await of client.getChats()
GroupsCall ==
  /\ isReady
  /\ getChats < MaxCalls
  /\ getChats' = getChats + 1
  /\ arrivedAfter' = lastEvent
  /\ UNCHANGED <<variant, schedulerVars, isReady, lastEvent, gresp>>

\* getChats resolved with chats: res.json(groups)
GroupsResolve(chats) ==
  /\ getChats > 0
  /\ getChats' = getChats - 1
  /\ gresp' = [code |-> 200, groups |-> groups(chats), error |-> ""]
  /\ UNCHANGED <<variant, schedulerVars, isReady, lastEvent, arrivedAfter>>

\* getChats rejected: the catch answers 500 with e.message
GroupsReject ==
  /\ getChats > 0
  /\ getChats' = getChats - 1
  /\ gresp' = [code |-> 500, groups |-> <<>>, error |-> "e.message"]
  /\ UNCHANGED <<variant, schedulerVars, isReady, lastEvent, arrivedAfter>>

NextChannel ==
  \/ Qr
  \/ Ready
  \/ Disconnected
  \/ GroupsNotReady
  \/ GroupsCall
  \/ \E chats \in Chats : GroupsResolve(chats)
  \/ GroupsReject

SpecChannel == Init /\ [][NextChannel]_vars

TypeOK ==
  /\ variant \in Variants
  /\ now \in 0..MaxTime
  /\ files \subseteq Paths
  /\ unlinking \subseteq Paths
  /\ DOMAIN scheduledTasks \subseteq Ids
  /\ Len(timers) <= MaxTasks
  /\ isReady \in BOOLEAN
  /\ lastEvent \in {"none", "qr", "ready", "disconnected"}
  /\ getChats \in 0..MaxCalls
  /\ gresp.code \in {0, 200, 500, 503}
  /\ Len(gresp.groups) <= MaxChats

\* ---- vocabulary of the properties ---------------------------------------
Has(seq, x) == \E k \in 1..Len(seq) : seq[k] = x
Count(seq, x) == Cardinality({k \in 1..Len(seq) : seq[k] = x})
Index(seq, x) == CHOOSE k \in 1..Len(seq) : seq[k] = x

\* delivery path taken / completed, cancellation path taken, for task t
DeliveryAttempted(t) == Has(effects[t], "send")
Delivered(t) == Has(effects[t], "emit")
Failed(t) == Has(effects[t], "log")
Cancelled(t) == t \in cancelled
Pending(t) == ~Delivered(t) /\ ~Failed(t) /\ ~Cancelled(t)

Requests == BOOLEAN \X Names \X GroupIds \X ScheduleTimes \X Ids
ScheduleReq(r) == Schedule(r[1], r[2], r[3], r[4], r[5])
Rejected == resp'.op = "schedule" /\ resp'.code = 400
Unlinked(p) == p \notin files' \/ p \in unlinking'

\* C1: when cancel(id) and the timer fire of the same task overlap (the
\* cancel is handled while the callback awaits client.sendMessage) and the
\* callback has finished, exactly one of the cancellation effects and the
\* delivery effects has occurred for that task.
C1_RaceExactlyOne ==
  \A t \in Handles :
    (Cancelled(t) /\ DeliveryAttempted(t) /\ timers[t].pc = "done")
      => (Cancelled(t) /\ ~Delivered(t)) \/ (~Cancelled(t) /\ Delivered(t))

\* C2: a schedule request whose id is already a key of scheduledTasks is
\* rejected, its uploaded file is deleted, and the map and the timers are
\* left as they were.
C2_DuplicateRejected ==
  [][\A r \in Requests :
       (ScheduleReq(r) /\ r[1] /\ r[5] \in DOMAIN scheduledTasks)
         => /\ Rejected
            /\ Unlinked(filename(now, r[2]))
            /\ scheduledTasks' = scheduledTasks
            /\ timers' = timers]_vars

\* C3: for every accepted request client.sendMessage is invoked at most
\* once and message_sent is emitted at most once, and the task never takes
\* both the delivery path and the cancellation path.
C3_AtMostOnce ==
  \A t \in Handles :
    /\ Count(effects[t], "send") <= 1
    /\ Count(effects[t], "emit") <= 1
    /\ ~(DeliveryAttempted(t) /\ Cancelled(t))

\* C4: the first cancel(id) handled while an accepted task with that id
\* still waits for its timer to fire answers 200, removes the id and deletes
\* that task's file, and no message_sent is ever emitted for that task.
C4_CancelBeforeFire ==
  /\ [][\A t \in Handles :
          (timers[t].pc = "armed" /\ t \notin cancelSeen
             /\ Cancel(timers[t].uiId))
            => /\ resp'.code = 200
               /\ timers[t].uiId \notin DOMAIN scheduledTasks'
               /\ timers[t].path \notin files']_vars
  /\ [](\A t \in cancelSeen : ~Delivered(t))

\* C5: when the delivery of a task succeeds (its sendMessage promise
\* resolves), which is never before the task's timer is due, message_sent
\* carrying the task's id is emitted, the unlink of its file is issued and
\* its id is no longer a key of scheduledTasks; the emit precedes the
\* removal.
C5_SentOnSuccess ==
  [][\A t \in Handles :
       (promise[t] = "pending" /\ promise'[t] = "resolved")
         => /\ now >= timers[t].fireAt
            /\ events' = Append(events, timers[t].uiId)
            /\ Unlinked(timers[t].path)
            /\ timers[t].uiId \notin DOMAIN scheduledTasks'
            /\ Has(effects'[t], "emit") /\ Has(effects'[t], "delete")
            /\ Index(effects'[t], "emit") < Index(effects'[t], "delete")]_vars

C5_Witness ==
  \E t \in Handles :
    /\ promise[t] = "resolved"
    /\ ~Cancelled(t)
    /\ Has(events, timers[t].uiId)
    /\ timers[t].path \notin files
    /\ timers[t].uiId \notin DOMAIN scheduledTasks

\* C6: a schedule request carrying a file whose scheduleTime is earlier than
\* the current time is answered 400, its file is deleted, no timer is armed
\* and no entry is added.
C6_PastRejected ==
  [][\A r \in Requests :
       (ScheduleReq(r) /\ r[1] /\ r[4].s = "iso" /\ r[4].t < now)
         => /\ Rejected
            /\ Unlinked(filename(now, r[2]))
            /\ timers' = timers
            /\ scheduledTasks' = scheduledTasks]_vars

\* C7: a schedule request is accepted only when its scheduleTime parses to
\* a time strictly after the current time.
C7_StrictlyFuture ==
  [][\A r \in Requests :
       (ScheduleReq(r) /\ ~(r[4].s = "iso" /\ r[4].t > now))
         => Rejected /\ timers' = timers /\ scheduledTasks' = scheduledTasks]_vars

C9_NoOrphanUpload ==
  [][\A r \in Requests :
       (ScheduleReq(r) /\ r[1] /\ Rejected)
         => Unlinked(filename(now, r[2]))]_vars

\* C10: an id is a key of scheduledTasks exactly when an accepted task with
\* that id is Pending (neither sent, cancelled nor failed).
C10_RegistryIffPending ==
  \A i \in Ids :
    i \in DOMAIN scheduledTasks
      <=> \E t \in Handles : timers[t].uiId = i /\ Pending(t)

\* C11: no task has two terminal outcomes, and a task is only ever
\* cancelled before its timer has fired: a cancel(id) issued after the
\* timer of the task has fired never cancels it.
C11_TerminalFinal ==
  \A t \in Handles :
    /\ ~(Delivered(t) /\ Cancelled(t))
    /\ ~(Failed(t) /\ Cancelled(t))
    /\ ~(Delivered(t) /\ Failed(t))
    /\ Cancelled(t) => timers[t].pc = "cleared"

\* C12: in the step in which the delivery of a task fails (fromFilePath
\* or sendMessage throws and the error is logged) no message_sent is emitted
\* and the task's id is no longer a key of scheduledTasks.
C12_FailureRemoves ==
  [][\A t \in Handles :
       (~Failed(t) /\ Has(effects'[t], "log"))
         => /\ events' = events
            /\ timers[t].uiId \notin DOMAIN scheduledTasks']_vars

\* C13: in the step in which a task leaves Pending (sent, cancelled or
\* failed) its uploaded file is deleted or its unlink is issued.
C13_CleanupOnTerminal ==
  [][\A t \in Handles :
       (Pending(t) /\ (Has(effects'[t], "emit") \/ Has(effects'[t], "log")
                         \/ t \in cancelled'))
         => Unlinked(timers[t].path)]_vars

\* the step in which the timer of task t fires
Fires(t) == timers[t].pc = "armed" /\ timers'[t].pc \in {"awaiting", "done"}

\* C14: when a timer fires for an id that is not a key of scheduledTasks the
\* firing is a no-op: no sendMessage, no message_sent, no file deleted or
\* unlinked, scheduledTasks unchanged.
C14_FireAfterCancelNoop ==
  [][\A t \in Handles :
       (Fires(t) /\ timers[t].uiId \notin DOMAIN scheduledTasks)
         => /\ ~Has(effects'[t], "send")
            /\ events' = events
            /\ files' = files
            /\ unlinking' = unlinking
            /\ scheduledTasks' = scheduledTasks]_vars

\* C15: a schedule request lacking the file, groupId, scheduleTime or uiId
\* is answered 400, arms no timer and inserts no entry.
C15_RequiredData ==
  [][\A r \in Requests :
       (ScheduleReq(r)
          /\ (~r[1] \/ r[3] = "" \/ r[4].s = "empty" \/ r[5] = ""))
         => Rejected /\ timers' = timers /\ scheduledTasks' = scheduledTasks]_vars

\* C16: while the callback of one task is suspended in client.sendMessage,
\* every other task whose timer is due can fire, every other suspended
\* delivery can complete, and cancel and schedule requests are served.
C16_HangStallsOnlyItself ==
  \A t \in Handles :
    timers[t].pc = "awaiting" =>
      /\ \A u \in Handles \ {t} :
           /\ (timers[u].pc = "armed" /\ now >= timers[u].fireAt
                 /\ timers[u].path \in files) => ENABLED FireSend(u)
           /\ (timers[u].pc = "armed" /\ now >= timers[u].fireAt
                 /\ timers[u].path \notin files) => ENABLED FireNoFile(u)
           /\ timers[u].pc = "awaiting" => ENABLED SendResolve(u)
      /\ \A i \in Ids : ENABLED Cancel(i)
      /\ Len(timers) < MaxTasks => \A r \in Requests : ENABLED ScheduleReq(r)

C16_Witness ==
  \E t \in Handles, u \in Handles :
    /\ t # u
    /\ timers[t].uiId # timers[u].uiId
    /\ timers[t].pc = "awaiting"
    /\ timers[u].pc = "awaiting"

\* a request, timer fire or delivery completion for id A
OpOn(A) ==
  \/ \E r \in Requests : r[5] = A /\ ScheduleReq(r)
  \/ Cancel(A)
  \/ \E t \in Handles :
       /\ timers[t].uiId = A
       /\ FireSend(t) \/ FireThrow(t) \/ FireNoFile(t) \/ SendResolve(t)
            \/ SendReject(t)

\* C18: an operation for id A leaves the entry, the timer and the file of
\* every task registered under another id unchanged.
C18_OtherIdsUntouched ==
  [][\A A \in Ids :
       OpOn(A) =>
         \A B \in Ids \ {A} :
           /\ B \in DOMAIN scheduledTasks <=> B \in DOMAIN scheduledTasks'
           /\ B \in DOMAIN scheduledTasks =>
                /\ scheduledTasks'[B] = scheduledTasks[B]
                /\ timers'[scheduledTasks[B].timeout]
                     = timers[scheduledTasks[B].timeout]
                /\ scheduledTasks[B].filePath \in files
                     <=> scheduledTasks[B].filePath \in files'
                /\ scheduledTasks[B].filePath \in unlinking
                     <=> scheduledTasks[B].filePath \in unlinking']_vars

\* C19: when a timer fires and its file is not on disk, sendMessage is not
\* called, nothing is emitted or logged, the task is not cancelled, and its
\* id is not a key of scheduledTasks afterwards.
C19_FireWithoutFile ==
  [][\A t \in Handles :
       (Fires(t) /\ timers[t].path \notin files)
         => /\ timers'[t].pc = "done"
            /\ ~Has(effects'[t], "send")
            /\ ~Has(effects'[t], "emit")
            /\ ~Has(effects'[t], "log")
            /\ events' = events
            /\ t \notin cancelled'
            /\ timers[t].uiId \notin DOMAIN scheduledTasks']_vars

C19_Witness ==
  \E t \in Handles :
    /\ timers[t].pc = "done"
    /\ Pending(t)
    /\ ~DeliveryAttempted(t)
    /\ timers[t].uiId \notin DOMAIN scheduledTasks

\* a group-listing request arrives
GroupsRequest == GroupsNotReady \/ GroupsCall

\* C17: isReady holds exactly when the latest client event was 'ready'
\* (false initially and after 'disconnected'); a group-listing request is
\* answered 503 exactly when it arrives while the channel is not ready, and
\* otherwise is answered 200 with exactly the group chats, or 500 if the
\* listing fails.
C17_GroupsReadiness ==
  /\ [](isReady <=> lastEvent = "ready")
  /\ [][GroupsRequest =>
          IF lastEvent = "ready"
            THEN getChats' = getChats + 1 /\ gresp' = gresp
            ELSE gresp'.code = 503 /\ getChats' = getChats]_vars
  /\ [][\A chats \in Chats :
          GroupsResolve(chats) =>
            /\ gresp'.code = 200
            /\ Len(gresp'.groups)
                 = Cardinality({j \in 1..Len(chats) : chats[j].isGroup})
            /\ \A k \in 1..Len(gresp'.groups) :
                 \E j \in 1..Len(chats) :
                   /\ chats[j].isGroup
                   /\ gresp'.groups[k]
                        = [name |-> chats[j].name, id |-> chats[j].id._serialized]]_vars
  /\ [][GroupsReject => gresp'.code = 500]_vars

C17_Witness ==
  /\ lastEvent = "disconnected"
  /\ arrivedAfter = "disconnected"
  /\ gresp.code = 503
  /\ getChats > 0
====
